---- MODULE Spec2Model ----
(***************************************************************************)
(* Model of the roster pipeline of onDuty.py: propagate_group,             *)
(* filter_on_duty, assign_shift, truncate_group_values and the row         *)
(* building of create_ouput_spreadsheet.                                   *)
(*                                                                         *)
(* Python strings are sequences of one-character strings, so that `in`,    *)
(* split, strip, + and the ordering used by sorted() are computed.         *)
(* A dict is a function whose DOMAIN is its set of keys; a missing key is  *)
(* a key outside the DOMAIN.  The dicts of one file live in `roster` and   *)
(* are mutated in place; the lists the stages pass on are sequences of     *)
(* positions in `roster` (references to those dicts).                      *)
(***************************************************************************)
EXTENDS Integers, Sequences, FiniteSets, TLC

VARIABLES
    pc,        \* position of main() in the try block of the current file
    file,      \* the cleaned rows of the input file, as load_roster_report read them
    roster,    \* the dict objects returned by load_roster_report
    data,      \* the list handed from one stage to the next (references)
    sheet,     \* the row collections create_ouput_spreadsheet hands to the report
    handled,   \* the branch of the if/elif chain taken for each group, in loop order
    err,       \* the exception caught by main(), "" when none
    inFileNames, \* the files selected in browse_for_excel, each with what reading it gives
    idx,       \* the position of the for loop of main() in inFileNames
    reports,   \* for each file the loop has left: the exception and the rows written
    dates      \* reportDate and generatedDateTime of main()

vars == <<pc, file, roster, data, sheet, handled, err, inFileNames, idx, reports, dates>>

(***************************************************************************)
(* Bounds                                                                  *)
(***************************************************************************)
MaxRows == 4
MaxFiles == 2

(***************************************************************************)
(* Strings                                                                 *)
(***************************************************************************)
\* the characters in use, in code point order
Chars ==
    << " ", "*", "+", "-", ".", "/", "0", "1", "2", "3", "4", "5", "6", "7", "8", "9",
       ":", "A", "B", "C", "D", "E", "F", "G", "H", "I", "J", "K", "L", "M", "N", "O",
       "P", "Q", "R", "S", "T", "U", "V", "W", "X", "Y", "Z", "a", "b", "c", "d", "e",
       "f", "g", "h", "i", "j", "k", "l", "m", "n", "o", "p", "q", "r", "s", "t", "u",
       "v", "w", "x", "y", "z" >>

CharCode(c) == CHOOSE i \in 1..Len(Chars) : Chars[i] = c

\* Python's a < b on str
RECURSIVE StrLess(_, _)
StrLess(a, b) ==
    IF b = <<>> THEN FALSE
    ELSE IF a = <<>> THEN TRUE
    ELSE IF Head(a) = Head(b) THEN StrLess(Tail(a), Tail(b))
    ELSE CharCode(Head(a)) < CharCode(Head(b))

StrLeq(a, b) == a = b \/ StrLess(a, b)

\* Python's sub in s on str
Contains(s, sub) ==
    /\ Len(sub) <= Len(s)
    /\ \E i \in 0..(Len(s) - Len(sub)) : SubSeq(s, i + 1, i + Len(sub)) = sub

\* s.strip()
RECURSIVE Strip(_)
Strip(s) ==
    IF s = <<>> THEN s
    ELSE IF Head(s) = " " THEN Strip(Tail(s))
    ELSE IF s[Len(s)] = " " THEN Strip(SubSeq(s, 1, Len(s) - 1))
    ELSE s

SepPositions(s, sep) == { i \in 1..Len(s) : s[i] = sep }

Max(S) == CHOOSE x \in S : \A y \in S : y <= x
Min(S) == CHOOSE x \in S : \A y \in S : x <= y

\* s.split(sep)[-1]
LastPart(s, sep) ==
    IF SepPositions(s, sep) = {} THEN s
    ELSE SubSeq(s, Max(SepPositions(s, sep)) + 1, Len(s))

\* s.split(sep, 1)[-1]
AfterFirst(s, sep) ==
    IF SepPositions(s, sep) = {} THEN s
    ELSE SubSeq(s, Min(SepPositions(s, sep)) + 1, Len(s))

\* sorted(S) for a set of str
RECURSIVE SortedSet(_)
SortedSet(S) ==
    IF S = {} THEN <<>>
    ELSE LET m == CHOOSE x \in S : \A y \in S : StrLeq(x, y)
         IN  <<m>> \o SortedSet(S \ {m})

(***************************************************************************)
(* Configuration                                                           *)
(***************************************************************************)
ON_DUTY_CODES ==
    << <<"E", "D", "I", "E", "M", "S", "E", "V", "1", "5", "E", "D", "I">>,
       <<"E", "M", "S", "S", "H", "F", "D", "I", "F">>,
       <<"E", "M", "S", "S", "H", "F", "D", "I", "F", "E", "S", "0", "9">>,
       <<"E", "M", "S", "S", "H", "F", "D", "I", "F", "E", "S", "3", "3">>,
       <<"S", "T", "W", "E", "P">>,
       <<"S", "T", "W", "E", "A">>,
       <<"*", "S", "T", "W", "E", "P">>,
       <<"*", "S", "T", "W", "E", "A">>,
       <<"+", "O", "T", "E", "M", "S", "1", "5">>,
       <<"+", "O", "O", "C", "E", "D", "T", "C", "P", "M">>,
       <<"+", "O", "O", "C", "E", "D", "T", "C", "A", "M">>,
       <<"E", "D", "I", "1", "5", "-", "S", "E">>,
       <<"+", "O", "O", "C", "E", "D", "T", "C", "A", "M", "E", "S", "2", "1">>,
       <<"+", "O", "O", "C", "E", "D", "T", "C", "P", "M", "E", "S", "2", "1">>,
       <<"E", "D", "I", "E", "M", "S", "E", "V", "1", "5", "E", "D", "I">>,
       <<"+", "E", "D", "I", "E", "M", "S", "E", "V", "1", "5", "E", "D", "I">>,
       <<"+", "O", "T", "E", "M", "S", "1", "5", "-", "S", "S">>,
       <<"O", "T", "S", "1", "5">>,
       <<"E", "M", "S", "S", "H", "F", "D", "I", "F", "E", "M", "S", "S", "0", "1">>,
       <<"+", "O", "O", "C", "A", "C">> >>

GENERIC_ON_DUTY_CODES ==
    << <<".">> >>

NOT_WORK_CODES ==
    << <<"*", "E", "S", "T", "N", "W", "P", "M">>,
       <<"*", "E", "S", "T", "N", "W", "A", "M">>,
       <<".", "E", "S", "T", "N", "W", "A", "M">>,
       <<".", "E", "S", "T", "N", "W", "P", "M">>,
       <<".", "H", "P", "M">>,
       <<".", "H", "A", "M">>,
       <<".", "P", "F", "L", "M", "P", "M", "M", "a", "t", "e", "r", "n", "i", "t", "y">>,
       <<".", "P", "F", "L", "M", "A", "M", "M", "a", "t", "e", "r", "n", "i", "t", "y">>,
       <<".", "F", "M", "L", "A", "-", "A", "M">>,
       <<".", "F", "M", "L", "A", "-", "P", "M">>,
       <<".", "P", "L", "P", "M">>,
       <<".", "P", "L", "A", "M">>,
       <<".", "E", "M", "S", " ", "M", "L", "A", "M", "3">>,
       <<".", "E", "M", "S", " ", "M", "L", "P", "M", "3">>,
       <<".", "P", "L", "P", "M">>,
       <<".", "P", "L", "A", "M">>,
       <<".", "V", "A", "M">>,
       <<".", "L", "W", "O", "P">>,
       <<".", "F", "M", "L", "A", "-", "A", "M", "C", "h", "i", "l", "d">>,
       <<"+", "S", "1", "2", "0", "P", "M", "0", ".">>,
       <<"+", "S", "1", "2", "0", "P", "M", "0", ".">>,
       <<".", "S", "A", "S", "C">>,
       <<".", "E", "V", "P", "M">>,
       <<".", "F", "M", "L", "A", "-", "A", "M", "C", "h", "i", "l", "d">>,
       <<".", "V", "P", "M">> >>

sMedic == <<"M", "e", "d", "i", "c">>
s73 == <<"7", "3">>
sOnDuty == <<"O", "n", "-", "D", "u", "t", "y">>
sDistrict == <<"D", "i", "s", "t", "r", "i", "c", "t">>
sEMS == <<"E", "M", "S">>
sTravelersAM == <<"T", "r", "a", "v", "e", "l", "e", "r", "s", " ", "A", "M">>
sTravelersPM == <<"T", "r", "a", "v", "e", "l", "e", "r", "s", " ", "P", "M">>
sAM == <<"A", "M">>
sPM == <<"P", "M">>
sSpecial == <<"S", "p", "e", "c", "i", "a", "l">>
sASST == <<"A", "S", "S", "T">>
t0600 == <<"0", "6", ":", "0", "0">>
t1800 == <<"1", "8", ":", "0", "0">>
t0700 == <<"0", "7", ":", "0", "0">>
gMedic10 == <<"M", "e", "d", "i", "c", " ", "1", "0">>
gMedic1 == <<"M", "e", "d", "i", "c", " ", "1">>
gDistrict1 == <<"D", "i", "s", "t", "r", "i", "c", "t", " ", "1">>
gStation12 == <<"S", "t", "a", "t", "i", "o", "n", " ", "1", "2">>
gDistrict3Station12 == <<"D", "i", "s", "t", "r", "i", "c", "t", " ", "3", " ", "/", " ", "S", "t", "a", "t", "i", "o", "n", " ", "1", "2">>
gDistrict3Slash == <<"D", "i", "s", "t", "r", "i", "c", "t", " ", "3", " ", "/">>
gEducation == <<"E", "d", "u", "c", "a", "t", "i", "o", "n">>
gEMSDistrictHQ == <<"E", "M", "S", " ", "D", "i", "s", "t", "r", "i", "c", "t", " ", "H", "Q">>
gMedic73 == <<"M", "e", "d", "i", "c", " ", "7", "3">>
gMedicOnDuty == <<"M", "e", "d", "i", "c", " ", "O", "n", "-", "D", "u", "t", "y">>
gOnDutyDistrict == <<"O", "n", "-", "D", "u", "t", "y", " ", "D", "i", "s", "t", "r", "i", "c", "t">>
gDistrictTravelersAM == <<"D", "i", "s", "t", "r", "i", "c", "t", " ", "T", "r", "a", "v", "e", "l", "e", "r", "s", " ", "A", "M">>
gTravelersAMPM == <<"T", "r", "a", "v", "e", "l", "e", "r", "s", " ", "A", "M", " ", "T", "r", "a", "v", "e", "l", "e", "r", "s", " ", "P", "M">>
cSTWEP == <<"S", "T", "W", "E", "P">>
cESTNWAM == <<"*", "E", "S", "T", "N", "W", "A", "M">>
cXdotY == <<"X", ".", "Y">>
cZZ == <<"Z", "Z">>
cHPM == <<".", "H", "P", "M">>

nA == <<"A">>
nB == <<"B">>
nC == <<"C">>
nD == <<"D">>
sDash == <<"-">>
sEmpty == <<>>

\* Python's None, distinct from every str
NoneVal == <<"None">>

(***************************************************************************)
(* dict access                                                             *)
(***************************************************************************)
\* entry.get(k)
Get(entry, k) == IF k \in DOMAIN entry THEN entry[k] ELSE NoneVal

\* entry.get(k, '')
GetOrEmpty(entry, k) == IF k \in DOMAIN entry THEN entry[k] ELSE sEmpty

\* entry[k] = v
SetKey(entry, k, v) ==
    [x \in DOMAIN entry \cup {k} |-> IF x = k THEN v ELSE entry[x]]

\* truth value of a str or None
Truthy(v) == v # NoneVal /\ v # sEmpty

\* the subsequence of seq of the elements in S
RECURSIVE Keep(_, _)
Keep(seq, S) ==
    IF seq = <<>> THEN <<>>
    ELSE IF Head(seq) \in S THEN <<Head(seq)>> \o Keep(Tail(seq), S)
    ELSE Keep(Tail(seq), S)

Range(seq) == { seq[i] : i \in 1..Len(seq) }

(***************************************************************************)
(* load_roster_report: clean_fields, rename_fields                         *)
(*                                                                         *)
(* A cell is a str, None, the float NaN of an empty cell, or another float *)
(* (<<"float">> followed by the characters str() gives for it).            *)
(***************************************************************************)
NaNVal == <<"nan">>
f12 == <<"float", "1", "2", ".", "0">>
sRank == <<"R", "a", "n", "k">>
sRankPadded == <<" ", "R", "a", "n", "k", " ">>
sRankA == <<"R", "a", "n", "k", " ", "A">>
sBlank == <<" ">>

\* isinstance(value, str)
IsStr(value) == value = <<>> \/ value[1] \notin {"float", "None", "nan"}

\* str(value)
PyStr(value) == IF IsStr(value) THEN value ELSE Tail(value)

FIELD_RENAME_MAP ==
    ("Unnamed: 2" :> "ID") @@ ("Unnamed: 3" :> "Name") @@ ("Unnamed: 5" :> "Code")
    @@ ("Unnamed: 6" :> "From") @@ ("Unnamed: 7" :> "Through") @@ ("Unnamed: 8" :> "Hours")

\* FIELD_RENAME_MAP.get(k, k)
NewKey(k) == IF k \in DOMAIN FIELD_RENAME_MAP THEN FIELD_RENAME_MAP[k] ELSE k

\* the keys that match ^Unnamed: \d+$
UnnamedKeys == { "Unnamed: 0", "Unnamed: 1", "Unnamed: 2", "Unnamed: 3", "Unnamed: 4",
                 "Unnamed: 5", "Unnamed: 6", "Unnamed: 7", "Unnamed: 8" }

\* is_empty_or_nan without the strip() of a str
is_empty_or_nan_NoStrip(value) ==
    \/ value = NoneVal
    \/ value = NaNVal
    \/ (IsStr(value) /\ value = sEmpty)

is_empty_or_nan(value) ==
    \/ value = NoneVal
    \/ value = NaNVal
    \/ (IsStr(value) /\ Strip(value) = sEmpty)

\* whether the inner loop of clean_fields copies key k
Copied(entry, k) ==
    IF is_empty_or_nan(entry[k]) THEN FALSE
    ELSE IF k \in UnnamedKeys THEN ~is_empty_or_nan(entry[k])
    ELSE TRUE

\* new_entry after the inner loop of clean_fields
NewEntry(entry) == [k \in { x \in DOMAIN entry : Copied(entry, x) } |-> entry[k]]

\* 'Rank' in [str(v).strip() for v in new_entry.values()]
HasRank(new_entry) == \E k \in DOMAIN new_entry : Strip(PyStr(new_entry[k])) = sRank

RECURSIVE clean_fields(_)
clean_fields(records) ==
    IF records = <<>> THEN <<>>
    ELSE LET new_entry == NewEntry(Head(records))
         IN  IF DOMAIN new_entry # {} /\ ~HasRank(new_entry)
             THEN <<new_entry>> \o clean_fields(Tail(records))
             ELSE clean_fields(Tail(records))

\* renamed_entry; no sheet in use has a column under both an old and a new name
RenamedEntry(entry) ==
    [nk \in { NewKey(k) : k \in DOMAIN entry } |->
        entry[CHOOSE k \in DOMAIN entry : NewKey(k) = nk]]

rename_fields(records) == [i \in 1..Len(records) |-> RenamedEntry(records[i])]

\* the rows load_roster_report returns for the records pandas read
load_roster_report(records) == rename_fields(clean_fields(records))

(***************************************************************************)
(* propagate_group                                                         *)
(***************************************************************************)
IsLabelRow(entry) == Cardinality(DOMAIN entry) = 1

SoleValue(entry) == entry[CHOOSE k \in DOMAIN entry : TRUE]

\* NextLabel that takes a label only while none is set
NextLabel_KeepFirst(entry, current_label) ==
    IF IsLabelRow(entry) /\ current_label = NoneVal THEN SoleValue(entry) ELSE current_label

\* current_label after the loop body ran on entry
NextLabel(entry, current_label) ==
    IF IsLabelRow(entry) THEN SoleValue(entry) ELSE current_label

\* Labelled that stamps the label rows too
Labelled_AlsoHeaders(entry, current_label) ==
    IF current_label # NoneVal
    THEN SetKey(entry, "Group", current_label)
    ELSE entry

\* the dict entry after the loop body ran on it
Labelled(entry, current_label) ==
    IF ~IsLabelRow(entry) /\ current_label # NoneVal
    THEN SetKey(entry, "Group", current_label)
    ELSE entry

\* the for loop, from position i on, with the locals current_label and result
RECURSIVE PropagateLoop(_, _, _, _)
PropagateLoop(objs, i, current_label, result) ==
    IF i > Len(objs) THEN [ objs |-> objs, result |-> result ]
    ELSE PropagateLoop([objs EXCEPT ![i] = Labelled(@, current_label)],
                       i + 1,
                       NextLabel(objs[i], current_label),
                       IF IsLabelRow(objs[i]) THEN result ELSE Append(result, i))

propagate_group(objs) == PropagateLoop(objs, 1, NoneVal, <<>>)

(***************************************************************************)
(* filter_on_duty                                                          *)
(***************************************************************************)
InList(x, list) == \E i \in 1..Len(list) : list[i] = x

\* is_allowed that forgets the generic substrings
is_allowed_ExactOnly(code) == InList(code, ON_DUTY_CODES)

\* is_allowed applied to a str
is_allowed(code) ==
    \/ InList(code, ON_DUTY_CODES)
    \/ \E i \in 1..Len(GENERIC_ON_DUTY_CODES) : Contains(code, GENERIC_ON_DUTY_CODES[i])

\* is_allowed(None) evaluates g in None
IsAllowedRaises(code) == code = NoneVal /\ Len(GENERIC_ON_DUTY_CODES) > 0

Counted(entry) == Truthy(Get(entry, "Name")) /\ Truthy(Get(entry, "Code"))

codes_by_name(objs, refs) ==
    [ name \in { objs[r].Name : r \in { q \in Range(refs) : Counted(objs[q]) } } |->
        { objs[r].Code : r \in { q \in Range(refs) : Counted(objs[q]) /\ objs[q].Name = name } } ]

\* on_duty_names where only a person whose codes are all cancel codes is vetoed
on_duty_names_AllCancel(objs, refs) ==
    LET cbn == codes_by_name(objs, refs)
    IN  { name \in DOMAIN cbn :
            /\ \E c \in cbn[name] : is_allowed(c)
            /\ ~\A c \in cbn[name] : InList(c, NOT_WORK_CODES) }

on_duty_names(objs, refs) ==
    LET cbn == codes_by_name(objs, refs)
    IN  { name \in DOMAIN cbn :
            /\ \E c \in cbn[name] : is_allowed(c)
            /\ ~\E c \in cbn[name] : InList(c, NOT_WORK_CODES) }

filter_on_duty(objs, refs) ==
    LET odn     == on_duty_names(objs, refs)
        named   == { r \in Range(refs) : Get(objs[r], "Name") \in odn }
        raisers == { r \in named : IsAllowedRaises(Get(objs[r], "Code")) }
    IN  IF raisers # {}
        THEN [ err |-> "TypeError", result |-> <<>> ]
        ELSE [ err |-> "",
               result |-> Keep(refs, { r \in named : is_allowed(Get(objs[r], "Code")) }) ]

(***************************************************************************)
(* assign_shift                                                            *)
(***************************************************************************)
\* ShiftOf with the tests on through_time that the source has commented out
ShiftOf_WithThrough(entry) ==
    IF Get(entry, "From") = t0600 /\ Get(entry, "Through") = t1800 THEN sAM
    ELSE IF Get(entry, "From") = t1800 /\ Get(entry, "Through") = t0600 THEN sPM
    ELSE sSpecial

ShiftOf(entry) ==
    IF Get(entry, "From") = t0600 THEN sAM
    ELSE IF Get(entry, "From") = t1800 THEN sPM
    ELSE sSpecial

assign_shift(objs, refs) ==
    [i \in 1..Len(objs) |->
        IF i \in Range(refs) THEN SetKey(objs[i], "Shift", ShiftOf(objs[i])) ELSE objs[i]]

(***************************************************************************)
(* truncate_group_values, find_unique_lables                               *)
(***************************************************************************)
\* Truncated that keeps parts[0] instead of parts[-1]
Truncated_FirstPart(entry, separator) ==
    IF "Group" \in DOMAIN entry /\ SepPositions(entry.Group, separator) # {}
    THEN SetKey(entry, "Group",
                Strip(SubSeq(entry.Group, 1, Min(SepPositions(entry.Group, separator)) - 1)))
    ELSE entry

Truncated(entry, separator) ==
    IF "Group" \in DOMAIN entry /\ SepPositions(entry.Group, separator) # {}
    THEN SetKey(entry, "Group", Strip(LastPart(entry.Group, separator)))
    ELSE entry

truncate_group_values(objs, refs, separator) ==
    [i \in 1..Len(objs) |->
        IF i \in Range(refs) THEN Truncated(objs[i], separator) ELSE objs[i]]

find_unique_lables(objs, refs, label_key) ==
    SortedSet({ objs[r][label_key] : r \in { q \in Range(refs) : label_key \in DOMAIN objs[q] } })

\* sorted(list, key=...) given the key of each element: stable
StableSort(list, keys) ==
    LET n == Len(list)
        rank(i) == 1 + Cardinality({ j \in 1..n :
                         \/ StrLess(keys[j], keys[i])
                         \/ keys[j] = keys[i] /\ j < i })
    IN  [p \in 1..n |-> list[CHOOSE i \in 1..n : rank(i) = p]]

sort_by_second_string(rows) ==
    StableSort(rows, [i \in 1..Len(rows) |-> rows[i][2]])

(***************************************************************************)
(* create_ouput_spreadsheet: the row building                              *)
(***************************************************************************)
\* a local variable that was never assigned
Unbound == <<>>

AllEmpty(row) == \A i \in 1..Len(row) : row[i] = sEmpty

HasKeys(entry, keys) == keys \subseteq DOMAIN entry

\* [entry for entry in data if group in entry.get('Group', '')]
Entries(objs, refs, group) ==
    Keep(refs, { r \in Range(refs) : Contains(GetOrEmpty(objs[r], "Group"), group) })

\* [e for e in entries if shift in e.get('Shift', '')]
ShiftEntries(objs, entries, shift) ==
    Keep(entries, { r \in Range(entries) : Contains(GetOrEmpty(objs[r], "Shift"), shift) })

\* the chain with the On-Duty test ahead of the Medic test
Branch_AssistantFirst(group) ==
    IF Contains(group, sOnDuty) THEN "Assistant"
    ELSE IF Contains(group, sMedic) /\ ~Contains(group, s73) THEN "Medic"
    ELSE IF Contains(group, sDistrict) /\ ~Contains(group, sEMS) THEN "DistrictChief"
    ELSE IF Contains(group, sTravelersAM) THEN "TravelerAM"
    ELSE IF Contains(group, sTravelersPM) THEN "TravelerPM"
    ELSE "Other"

\* the if/elif chain of the loop body
Branch(group) ==
    IF Contains(group, sMedic) /\ ~Contains(group, s73) THEN "Medic"
    ELSE IF Contains(group, sOnDuty) THEN "Assistant"
    ELSE IF Contains(group, sDistrict) /\ ~Contains(group, sEMS) THEN "DistrictChief"
    ELSE IF Contains(group, sTravelersAM) THEN "TravelerAM"
    ELSE IF Contains(group, sTravelersPM) THEN "TravelerPM"
    ELSE "Other"

\* AMrow / PMrow of the medic branch; <<"KeyError">> marks a failed subscript
MedicSubRow(objs, es) ==
    LET n == Len(es)
        used == IF n > 3 THEN 3 ELSE n
    IN  IF n = 0 THEN <<sEmpty, sEmpty, sEmpty, sEmpty, sEmpty>>
        ELSE IF ~HasKeys(objs[es[1]], {"Shift", "Group"})
                \/ \E k \in 1..used : ~HasKeys(objs[es[k]], {"Name"})
             THEN <<NoneVal>>
             ELSE <<objs[es[1]].Shift, objs[es[1]].Group>>
                  \o [k \in 1..3 |-> IF k <= n THEN objs[es[k]].Name ELSE sEmpty]

\* AMASSrow / PMASSrow, given the value the local had before
AsstSideRow(objs, es, shift, before) ==
    IF Len(es) = 1
    THEN IF HasKeys(objs[es[1]], {"Shift", "Name"})
         THEN <<objs[es[1]].Shift, sASST, objs[es[1]].Name>>
         ELSE <<NoneVal>>
    ELSE IF Len(es) = 0 THEN <<shift, sASST, sEmpty>>
    ELSE before

\* AMdistrow / PMdistrow, given the value the local had before
DistSideRow(objs, es, before) ==
    IF Len(es) = 1
    THEN IF HasKeys(objs[es[1]], {"Shift", "Group", "Name"})
         THEN <<objs[es[1]].Shift, objs[es[1]].Group, objs[es[1]].Name>>
         ELSE <<NoneVal>>
    ELSE IF Len(es) = 0 THEN <<sEmpty, sEmpty, sEmpty>>
    ELSE before

\* PersonRow that reads the group with entry.get('Group', '')
PersonRow_GroupOrEmpty(entry) ==
    IF HasKeys(entry, {"From", "Through", "Name"})
    THEN <<sEmpty, entry.From \o sDash \o entry.Through, GetOrEmpty(entry, "Group"), entry.Name>>
    ELSE <<NoneVal>>

\* travelAMRow / travelPMRow / specialRow of one entry
PersonRow(entry) ==
    IF HasKeys(entry, {"From", "Through", "Group", "Name"})
    THEN <<sEmpty, entry.From \o sDash \o entry.Through, entry.Group, entry.Name>>
    ELSE <<NoneVal>>

\* the rows appended by a for loop over entries, and whether a subscript failed
RECURSIVE PersonRows(_, _)
PersonRows(objs, entries) ==
    IF entries = <<>> THEN [ rows |-> <<>>, failed |-> FALSE ]
    ELSE LET row == PersonRow(objs[Head(entries)])
         IN  IF row = <<NoneVal>> THEN [ rows |-> <<>>, failed |-> TRUE ]
             ELSE LET rest == PersonRows(objs, Tail(entries))
                  IN  [ rows   |-> (IF AllEmpty(row) THEN <<>> ELSE <<row>>) \o rest.rows,
                        failed |-> rest.failed ]

\* the locals of create_ouput_spreadsheet before the loop
InitLocals ==
    [ asstRow |-> <<>>, medicRows |-> <<>>, distRows |-> <<>>, specialRows |-> <<>>,
      travelAMRows |-> <<>>, travelPMRows |-> <<>>, AsstFound |-> FALSE,
      AMASSrow |-> Unbound, PMASSrow |-> Unbound,
      AMdistrow |-> Unbound, PMdistrow |-> Unbound,
      err |-> "", handled |-> <<>> ]

MedicBranch(objs, entries, loc) ==
    LET AMrow == MedicSubRow(objs, ShiftEntries(objs, entries, sAM))
        PMrow == MedicSubRow(objs, ShiftEntries(objs, entries, sPM))
    IN  IF AMrow = <<NoneVal>> \/ PMrow = <<NoneVal>>
        THEN [loc EXCEPT !.err = "KeyError"]
        ELSE IF ~AllEmpty(AMrow \o PMrow)
             THEN [loc EXCEPT !.medicRows = Append(@, AMrow \o PMrow)]
             ELSE loc

AssistantBranch(objs, entries, loc) ==
    LET AMASSrow == AsstSideRow(objs, ShiftEntries(objs, entries, sAM), sAM, loc.AMASSrow)
        PMASSrow == AsstSideRow(objs, ShiftEntries(objs, entries, sPM), sPM, loc.PMASSrow)
        l1 == [loc EXCEPT !.AsstFound = TRUE, !.AMASSrow = AMASSrow, !.PMASSrow = PMASSrow]
    IN  IF AMASSrow = <<NoneVal>> \/ PMASSrow = <<NoneVal>>
        THEN [l1 EXCEPT !.err = "KeyError"]
        ELSE IF AMASSrow = Unbound \/ PMASSrow = Unbound
             THEN [l1 EXCEPT !.err = "UnboundLocalError"]
             ELSE IF ~AllEmpty(AMASSrow \o PMASSrow)
                  THEN [l1 EXCEPT !.asstRow = AMASSrow \o <<sEmpty, sEmpty>> \o PMASSrow]
                  ELSE l1

DistrictBranch(objs, entries, loc) ==
    LET AMdistrow == DistSideRow(objs, ShiftEntries(objs, entries, sAM), loc.AMdistrow)
        PMdistrow == DistSideRow(objs, ShiftEntries(objs, entries, sPM), loc.PMdistrow)
        l1 == [loc EXCEPT !.AMdistrow = AMdistrow, !.PMdistrow = PMdistrow]
    IN  IF AMdistrow = <<NoneVal>> \/ PMdistrow = <<NoneVal>>
        THEN [l1 EXCEPT !.err = "KeyError"]
        ELSE IF AMdistrow = Unbound \/ PMdistrow = Unbound
             THEN [l1 EXCEPT !.err = "UnboundLocalError"]
             ELSE IF ~AllEmpty(AMdistrow \o PMdistrow)
                  THEN [l1 EXCEPT !.distRows =
                            Append(@, AMdistrow \o <<sEmpty, sEmpty>> \o PMdistrow)]
                  ELSE l1

PersonBranch(objs, entries, loc, collection) ==
    LET built == PersonRows(objs, entries)
    IN  IF built.failed THEN [loc EXCEPT !.err = "KeyError"]
        ELSE [loc EXCEPT ![collection] = @ \o built.rows]

\* one iteration of `for group in groupLabelsSorted`
GroupStep(objs, refs, loc, group) ==
    LET entries == Entries(objs, refs, group)
        branch  == Branch(group)
        l0      == [loc EXCEPT !.handled = Append(@, <<group, branch>>)]
    IN  CASE branch = "Medic"         -> MedicBranch(objs, entries, l0)
          [] branch = "Assistant"     -> AssistantBranch(objs, entries, l0)
          [] branch = "DistrictChief" -> DistrictBranch(objs, entries, l0)
          [] branch = "TravelerAM"    -> PersonBranch(objs, entries, l0, "travelAMRows")
          [] branch = "TravelerPM"    -> PersonBranch(objs, entries, l0, "travelPMRows")
          [] OTHER                    -> PersonBranch(objs, entries, l0, "specialRows")

\* the loop over the groups; an exception leaves it
RECURSIVE BuildLoop(_, _, _, _)
BuildLoop(objs, refs, groups, loc) ==
    IF groups = <<>> \/ loc.err # "" THEN loc
    ELSE BuildLoop(objs, refs, Tail(groups), GroupStep(objs, refs, loc, Head(groups)))

\* the placeholder without the two spacer cells
AsstPlaceholder_SixCells == <<sAM, sASST, sEmpty, sPM, sASST, sEmpty>>

\* asstRow when no group contains "On-Duty"
AsstPlaceholder == <<sAM, sASST, sEmpty, sEmpty, sEmpty, sPM, sASST, sEmpty>>

\* nothing was handed to the report
NoSheet ==
    [ asstRow |-> <<>>, distRows |-> <<>>, medicRows |-> <<>>,
      travelAMRows |-> <<>>, travelPMRows |-> <<>>, specialRows |-> <<>> ]

GroupLabelsSorted(objs, refs) ==
    LET groupLabels == find_unique_lables(objs, refs, "Group")
    IN  StableSort(groupLabels,
                   [i \in 1..Len(groupLabels) |-> AfterFirst(groupLabels[i], "/")])

create_ouput_spreadsheet(objs, refs) ==
    LET o1  == truncate_group_values(objs, refs, "/")
        loc == BuildLoop(o1, refs, GroupLabelsSorted(o1, refs), InitLocals)
    IN  [ objs    |-> o1,
          err     |-> loc.err,
          handled |-> loc.handled,
          sheet   |-> IF loc.err # "" THEN NoSheet
                      ELSE [ asstRow      |-> IF loc.AsstFound THEN loc.asstRow
                                              ELSE AsstPlaceholder,
                             distRows     |-> loc.distRows,
                             medicRows    |-> loc.medicRows,
                             travelAMRows |-> loc.travelAMRows,
                             travelPMRows |-> loc.travelPMRows,
                             specialRows  |-> sort_by_second_string(loc.specialRows) ] ]

\* the stages of main() from propagate_group to create_ouput_spreadsheet, on
\* the dict objects objs
RunPipeline(objs) ==
    LET p == propagate_group(objs)
        f == filter_on_duty(p.objs, p.result)
    IN  IF f.err # "" THEN [ err |-> f.err, sheet |-> NoSheet, objs |-> p.objs ]
        ELSE LET c == create_ouput_spreadsheet(assign_shift(p.objs, f.result), f.result)
             IN  [ err |-> c.err, sheet |-> c.sheet, objs |-> c.objs ]

(***************************************************************************)
(* Input rows                                                              *)
(***************************************************************************)
\* a section header: the only populated cell of its row
H(label) == "Unnamed: 1" :> label

\* an assignment row
R(name, code, from, through) ==
    [Name |-> name, Code |-> code, From |-> from, Through |-> through]

Inputs(Pool) == UNION { [1..n -> Pool] : n \in 0..MaxRows }

\* the columns pandas names for the sheet: the titled first column and the rest
TitleColumn == "Roster Report"
Columns == {TitleColumn} \cup (UnnamedKeys \ {"Unnamed: 0"})

\* a row of df.to_dict(orient='records') without a populated cell
Blank == [k \in Columns |-> NaNVal]

\* the records pandas gives for a sheet whose populated cells are those of rows
AsRead(rows) ==
    [i \in 1..Len(rows) |->
        [k \in Columns |-> IF NewKey(k) \in DOMAIN rows[i] THEN rows[i][NewKey(k)] ELSE NaNVal]]

\* texts of the centre header and the centre footer of a sheet
hDated == <<"R", "o", "s", "t", "e", "r", " ", "[", "0", "1", "/", "0", "2", "/", "2", "0", "2", "5", "]">>
hUndated == <<"R", "o", "s", "t", "e", "r">>
fStamped == <<"0", "1", "/", "0", "2", "/", "2", "0", "2", "5", " ", " ", "0", "6", ":", "3", "0", ":", "0", "0">>
fUnstamped == <<"P", "a", "g", "e", " ", "1">>

\* a selected file: whether load_workbook opens it, the texts of its centre
\* header and centre footer (None when absent), whether pandas can read it,
\* and the records it holds
Workbook(records) ==
    [opens |-> TRUE, header |-> hDated, footer |-> fStamped, readable |-> TRUE,
     records |-> records]

IsDigit(c) == c \in {"0", "1", "2", "3", "4", "5", "6", "7", "8", "9"}

\* \d{2}/\d{2}/\d{4} at position i of s
DateAt(s, i) ==
    /\ i >= 1 /\ i + 9 <= Len(s)
    /\ \A j \in {0, 1, 3, 4, 6, 7, 8, 9} : IsDigit(s[i + j])
    /\ s[i + 2] = "/" /\ s[i + 5] = "/"

\* \d{2}:\d{2}:\d{2} at position i of s
TimeAt(s, i) ==
    /\ i >= 1 /\ i + 7 <= Len(s)
    /\ \A j \in {0, 1, 3, 4, 6, 7} : IsDigit(s[i + j])
    /\ s[i + 2] = ":" /\ s[i + 5] = ":"

\* the positions where \[(\d{2}/\d{2}/\d{4})\] matches
HeaderMatches(s) ==
    { i \in 1..Len(s) : s[i] = "[" /\ DateAt(s, i + 1) /\ i + 11 <= Len(s) /\ s[i + 11] = "]" }

\* the length of the run of whitespace of s from position i on
RECURSIVE SpaceRun(_, _)
SpaceRun(s, i) == IF i <= Len(s) /\ s[i] = " " THEN 1 + SpaceRun(s, i + 1) ELSE 0

\* the positions where (\d{2}/\d{2}/\d{4}\s+\d{2}:\d{2}:\d{2}) matches
FooterMatches(s) ==
    { i \in 1..Len(s) :
        DateAt(s, i) /\ SpaceRun(s, i + 10) >= 1 /\ TimeAt(s, i + 10 + SpaceRun(s, i + 10)) }

\* s.replace("/", "-")
Dashed(s) == [i \in 1..Len(s) |-> IF s[i] = "/" THEN "-" ELSE s[i]]

\* get_report_dates: the exception raised ("" if none) and the pair returned
get_report_dates(f) ==
    IF ~f.opens THEN [ err |-> "InvalidFileException", result |-> <<>> ]
    ELSE IF f.header = NoneVal \/ f.footer = NoneVal
    THEN [ err |-> "TypeError", result |-> <<>> ]
    ELSE LET hm == HeaderMatches(f.header)
             fm == FooterMatches(f.footer)
             report_date ==
                 IF hm # {} THEN Dashed(SubSeq(f.header, Min(hm) + 1, Min(hm) + 10))
                 ELSE sEmpty
             generated_date ==
                 IF fm # {}
                 THEN Dashed(SubSeq(f.footer, Min(fm),
                                    Min(fm) + 17 + SpaceRun(f.footer, Min(fm) + 10)))
                 ELSE sEmpty
         IN  [ err |-> "", result |-> <<report_date, generated_date>> ]

(***************************************************************************)
(* main: the try block of one input file                                   *)
(***************************************************************************)
InitWith(Pool) ==
    /\ file \in Inputs(Pool)
    /\ inFileNames = <<Workbook(AsRead(file))>>
    /\ dates = get_report_dates(inFileNames[1]).result
    /\ idx = 1
    /\ reports = <<>>
    /\ roster = file
    /\ data = [i \in 1..Len(roster) |-> i]
    /\ pc = "loaded"
    /\ sheet = NoSheet
    /\ handled = <<>>
    /\ err = ""

PropagateGroup ==
    /\ pc = "loaded"
    /\ LET r == propagate_group(roster)
       IN  /\ roster' = r.objs
           /\ data' = r.result
    /\ pc' = "propagated"
    /\ UNCHANGED <<file, sheet, handled, err>>
    /\ UNCHANGED <<inFileNames, idx, reports, dates>>

FilterOnDuty ==
    /\ pc = "propagated"
    /\ LET r == filter_on_duty(roster, data)
       IN  /\ data' = r.result
           /\ err' = r.err
           /\ pc' = IF r.err = "" THEN "filtered" ELSE "failed"
    /\ UNCHANGED <<file, roster, sheet, handled>>
    /\ UNCHANGED <<inFileNames, idx, reports, dates>>

AssignShift ==
    /\ pc = "filtered"
    /\ roster' = assign_shift(roster, data)
    /\ pc' = "shifted"
    /\ UNCHANGED <<file, data, sheet, handled, err>>
    /\ UNCHANGED <<inFileNames, idx, reports, dates>>

CreateOutputSpreadsheet ==
    /\ pc = "shifted"
    /\ LET r == create_ouput_spreadsheet(roster, data)
       IN  /\ roster' = r.objs
           /\ sheet' = r.sheet
           /\ handled' = r.handled
           /\ err' = r.err
           /\ pc' = IF r.err = "" THEN "written" ELSE "failed"
    /\ UNCHANGED <<file, data>>
    /\ UNCHANGED <<inFileNames, idx, reports, dates>>

Next ==
    \/ PropagateGroup
    \/ FilterOnDuty
    \/ AssignShift
    \/ CreateOutputSpreadsheet

\* inputs for the arities of the medic, assistant and chief rows
PoolMain ==
    { H(gMedic10), H(gMedic1), H(sOnDuty), H(gDistrict1), H(gDistrict3Station12),
      R(nA, cSTWEP, t0600, t1800), R(nB, cSTWEP, t0600, t1800),
      R(nC, cXdotY, t1800, t0600), R(nD, cSTWEP, t0700, t1800) }

\* inputs for the duty codes: allowed, disqualifying, generic, neither, missing
PoolDuty ==
    { H(gMedic10),
      R(nA, cSTWEP, t0600, t1800), R(nA, cESTNWAM, t0600, t1800),
      R(nA, cXdotY, t0600, t1800), R(nA, cZZ, t0600, t1800),
      [Name |-> nA, From |-> t0600, Through |-> t1800],
      R(nB, cSTWEP, t1800, t0600), R(nB, cHPM, t1800, t0600),
      [Code |-> cSTWEP, From |-> t0600, Through |-> t1800] }

\* inputs for the section headers and the rows around them
PoolGroup ==
    { H(gMedic10), H(gDistrict3Slash), H(gEducation), H(sOnDuty), H(gDistrict1),
      H(sTravelersAM), [Name |-> nD],
      R(nA, cSTWEP, t0600, t1800), R(nB, cSTWEP, t1800, t0600) }

\* inputs for the group name patterns
PoolCat ==
    { H(gMedic73), H(gEMSDistrictHQ), H(gMedicOnDuty), H(gOnDutyDistrict),
      H(gDistrictTravelersAM), H(gTravelersAMPM), H(sTravelersPM), H(gEducation),
      R(nA, cSTWEP, t0600, t1800) }

\* inputs for the start and end times
PoolShift ==
    { H(gMedic10) }
    \cup { R(nA, cSTWEP, from, through) : from \in {t0600, t1800, t0700}, through \in {t1800, t0600} }
    \cup { [Name |-> nB, Code |-> cSTWEP, Through |-> through] : through \in {t1800, t0600} }

Init == InitWith(PoolMain)
InitShift == InitWith(PoolShift)
InitDuty == InitWith(PoolDuty)
InitGroup == InitWith(PoolGroup)
InitCat == InitWith(PoolCat)

Spec == Init /\ [][Next]_vars
SpecDuty == InitDuty /\ [][Next]_vars
SpecGroup == InitGroup /\ [][Next]_vars
SpecCat == InitCat /\ [][Next]_vars
SpecShift == InitShift /\ [][Next]_vars

(***************************************************************************)
(* main: the for loop over the selected files                              *)
(***************************************************************************)
GetReportDates ==
    /\ pc = "next"
    /\ LET r == get_report_dates(inFileNames[idx])
       IN  IF r.err # ""
           THEN pc' = "failed" /\ err' = r.err /\ dates' = dates
           ELSE pc' = "reading" /\ err' = err /\ dates' = r.result
    /\ UNCHANGED <<file, roster, data, sheet, handled, inFileNames, idx, reports>>

LoadRosterReport ==
    /\ pc = "reading"
    /\ IF inFileNames[idx].readable
       THEN LET rows == load_roster_report(inFileNames[idx].records)
            IN  /\ file' = rows
                /\ roster' = rows
                /\ data' = [i \in 1..Len(rows) |-> i]
                /\ pc' = "loaded"
                /\ err' = err
       ELSE /\ pc' = "failed"
            /\ err' = "ValueError"
            /\ UNCHANGED <<file, roster, data>>
    /\ UNCHANGED <<sheet, handled, inFileNames, idx, reports, dates>>

\* get_output_filename when the save dialog is cancelled: sys.exit(0)
CancelSave ==
    /\ pc = "shifted"
    /\ pc' = "exited"
    /\ UNCHANGED <<file, roster, data, sheet, handled, err, inFileNames, idx, reports, dates>>

\* create_ouput_spreadsheet when wb.save cannot write the chosen path
SaveFails ==
    /\ pc = "shifted"
    /\ LET r == create_ouput_spreadsheet(roster, data)
       IN  /\ r.err = ""
           /\ roster' = r.objs
           /\ handled' = r.handled
    /\ sheet' = NoSheet
    /\ err' = "PermissionError"
    /\ pc' = "failed"
    /\ UNCHANGED <<file, data, inFileNames, idx, reports, dates>>

\* append_first_sheet_with_formatting: copies the input sheet, or raises
AppendFirstSheet ==
    /\ pc = "written"
    /\ \E found \in BOOLEAN :
          /\ pc' = IF found THEN "appended" ELSE "failed"
          /\ err' = IF found THEN err ELSE "FileNotFoundError"
    /\ UNCHANGED <<file, roster, data, sheet, handled, inFileNames, idx, reports, dates>>

\* what main() leaves for a file: the exception printed, the rows written and
\* the dates in the titles of the written report
Report(e, rows, d) ==
    [err |-> e, sheet |-> rows, dates |-> IF rows = NoSheet THEN Unbound ELSE d]

\* a for loop that a caught exception ends
Continue_BreakOnError(i, n, e) ==
    IF e # "" THEN "done"
    ELSE IF i < n THEN "next" ELSE "done"

\* where the for loop goes after file i of n ended with exception e ("" if none)
Continue(i, n, e) == IF i < n THEN "next" ELSE "done"

\* the end of the loop body, directly or through the except clause
NextFile ==
    /\ pc \in {"appended", "failed"}
    /\ reports' = Append(reports, Report(err, sheet, dates))
    /\ pc' = Continue(idx, Len(inFileNames), err)
    /\ idx' = idx + 1
    /\ err' = ""
    /\ sheet' = NoSheet
    /\ handled' = <<>>
    /\ UNCHANGED <<file, roster, data, inFileNames, dates>>

NextMain ==
    \/ GetReportDates
    \/ LoadRosterReport
    \/ PropagateGroup
    \/ FilterOnDuty
    \/ AssignShift
    \/ CancelSave
    \/ CreateOutputSpreadsheet
    \/ SaveFails
    \/ AppendFirstSheet
    \/ NextFile

\* main() after browse_for_excel returned Files
InitFiles(Files) ==
    /\ inFileNames \in Files
    /\ idx = 1
    /\ pc = "next"
    /\ file = <<>>
    /\ roster = <<>>
    /\ data = <<>>
    /\ sheet = NoSheet
    /\ handled = <<>>
    /\ err = ""
    /\ reports = <<>>
    /\ dates = Unbound

\* records for the cases of clean_fields
RawPool ==
    { Blank,
      [Blank EXCEPT !["Unnamed: 1"] = gMedic10],
      [AsRead(<<R(nA, cSTWEP, t0600, t1800)>>)[1] EXCEPT !["Unnamed: 8"] = f12,
                                                          !["Unnamed: 4"] = sBlank],
      [Blank EXCEPT !["Unnamed: 3"] = sRank, !["Unnamed: 5"] = cSTWEP],
      [Blank EXCEPT !["Unnamed: 1"] = sRankPadded],
      [Blank EXCEPT !["Unnamed: 3"] = sBlank, !["Unnamed: 5"] = NoneVal,
                    ![TitleColumn] = sEmpty],
      [AsRead(<<R(nB, cSTWEP, t1800, t0600)>>)[1] EXCEPT ![TitleColumn] = sRankA] }

InitNorm == InitFiles({ <<Workbook(records)>> : records \in Inputs(RawPool) })
SpecNorm == InitNorm /\ [][NextMain]_vars

\* files for the stages of the loop body: some that are written, and some that
\* fail in each of get_report_dates, load_roster_report, filter_on_duty and
\* create_ouput_spreadsheet
fMedic == Workbook(AsRead(<<H(gMedic10), R(nA, cSTWEP, t0600, t1800)>>))
fStation == Workbook(AsRead(<<H(gDistrict3Station12), R(nC, cXdotY, t1800, t0600)>>))
fNoHeader == [fStation EXCEPT !.header = NoneVal]
fNoFooter == [fMedic EXCEPT !.footer = NoneVal]
fUnopenable == [fMedic EXCEPT !.opens = FALSE]
fUndated == [fMedic EXCEPT !.header = hUndated, !.footer = fUnstamped]
fUnreadable == [fStation EXCEPT !.readable = FALSE]
fCodeless ==
    Workbook(AsRead(<<R(nA, cSTWEP, t0600, t1800),
                      [Name |-> nA, From |-> t0600, Through |-> t1800]>>))
fTwoAssistants ==
    Workbook(AsRead(<<H(sOnDuty), R(nA, cSTWEP, t0600, t1800), R(nB, cSTWEP, t0600, t1800)>>))
FilePool ==
    { fMedic, fStation, fNoHeader, fNoFooter, fUnopenable, fUndated, fUnreadable,
      fCodeless, fTwoAssistants }

InitBatch == InitFiles(UNION { [1..n -> FilePool] : n \in 1..MaxFiles })
SpecBatch == InitBatch /\ [][NextMain]_vars

(***************************************************************************)
(* Vocabulary of the properties                                            *)
(***************************************************************************)
Positions == [i \in 1..Len(file) |-> i]

\* the rows of the file that are not section headers
InputRecords == { i \in 1..Len(file) : ~IsLabelRow(file[i]) }

HasName(i) == "Name" \in DOMAIN file[i]
HasCode(i) == "Code" \in DOMAIN file[i]

\* filter_on_duty returned, and data is what it returned
FilterReturned ==
    \/ pc \in {"filtered", "shifted", "written"}
    \/ pc = "failed" /\ err # "TypeError"

\* the person holds a code of the disqualifying set on one of their records
Vetoed(name) ==
    \E i \in InputRecords :
        /\ HasName(i) /\ file[i].Name = name
        /\ HasCode(i) /\ file[i].Code \in Range(NOT_WORK_CODES)

\* exact match of the allowed set, or a generic substring anywhere
AllowedCode(code) ==
    \/ code \in Range(ON_DUTY_CODES)
    \/ \E g \in Range(GENERIC_ON_DUTY_CODES) : Contains(code, g)

HoldsAllowed(name) ==
    \E i \in InputRecords :
        /\ HasName(i) /\ file[i].Name = name
        /\ HasCode(i) /\ AllowedCode(file[i].Code)

OnDutyPerson(name) == HoldsAllowed(name) /\ ~Vetoed(name)

\* C1: a person who holds a disqualifying code on any record has no record in
\* the output of filter_on_duty, whatever other codes the person holds.
C1_VetoDominance ==
    FilterReturned =>
        \A i \in InputRecords :
            (HasName(i) /\ Vetoed(file[i].Name)) =>
                \A k \in 1..Len(data) : Get(roster[data[k]], "Name") # file[i].Name

\* a vetoed person also holds an allowed code, and somebody else was emitted
C1_Witness ==
    /\ pc = "filtered"
    /\ \E i \in InputRecords :
          HasName(i) /\ Vetoed(file[i].Name) /\ HoldsAllowed(file[i].Name)
    /\ Len(data) > 0

\* C2: filter_on_duty returns, in input order and without additions or
\* duplicates, exactly the records of on-duty people whose own code is allowed.
C2_ExactSubsequence ==
    FilterReturned =>
        data = Keep(Positions,
                    { i \in InputRecords :
                        /\ HasName(i) /\ OnDutyPerson(file[i].Name)
                        /\ HasCode(i) /\ AllowedCode(file[i].Code) })

\* a code allowed only through the generic substring was emitted, next to
\* another record, while some record was left out
C2_Witness ==
    /\ pc = "filtered"
    /\ \E k \in 1..Len(data) : roster[data[k]].Code = cXdotY
    /\ Len(data) >= 2
    /\ Len(data) < Cardinality(InputRecords)

WellFormed == { i \in InputRecords : HasName(i) /\ HasCode(i) }

\* C3: a record without a name or without a code is not an error: the filter
\* completes and returns what it returns without those records.
C3_MalformedIsSilent ==
    /\ ~(pc = "failed" /\ err = "TypeError")
    /\ pc = "filtered" =>
          data = filter_on_duty(roster, Keep(Positions, WellFormed)).result

HeadersBefore(i) == { j \in 1..(i - 1) : IsLabelRow(file[j]) }

\* C4: propagate_group consumes every single-field row, emits the other rows
\* in input order, and stamps each emitted row with the value of the most
\* recent single-field row before it.
C4_LabelPropagation ==
    pc = "propagated" =>
        /\ data = Keep(Positions, InputRecords)
        /\ \A i \in InputRecords :
              HeadersBefore(i) # {} =>
                  roster[i] = SetKey(file[i], "Group",
                                     SoleValue(file[Max(HeadersBefore(i))]))

\* a row was stamped after two headers with different texts
C4_Witness ==
    /\ pc = "propagated"
    /\ \E i \in InputRecords : \E j, k \in HeadersBefore(i) :
          /\ j < k
          /\ SoleValue(file[j]) # SoleValue(file[k])
          /\ roster[i].Group = SoleValue(file[k])

\* the records in front of the first section header
PreHeader == { i \in InputRecords : HeadersBefore(i) = {} }

SheetRows ==
    {sheet.asstRow} \cup Range(sheet.distRows) \cup Range(sheet.medicRows)
    \cup Range(sheet.travelAMRows) \cup Range(sheet.travelPMRows)
    \cup Range(sheet.specialRows)

SheetCells == UNION { Range(row) : row \in SheetRows }

\* C5: a record in front of the first header never gets a Group, and the rows
\* handed to the report are those built without these records: no name that
\* only such records carry is in a row of any category.
C5_PreHeaderExcluded ==
    /\ \A i \in PreHeader : "Group" \notin DOMAIN roster[i]
    /\ \A i \in PreHeader \cap Range(data) :
          (\A r \in Range(data) \ PreHeader :
                  Get(roster[r], "Name") # Get(roster[i], "Name"))
              => Get(roster[i], "Name") \notin SheetCells
    /\ pc = "written" =>
          sheet = create_ouput_spreadsheet(
                      roster, Keep(data, Range(data) \ PreHeader)).sheet

\* an on-duty record in front of the first header, and rows of a later group
C5_Witness ==
    /\ pc = "written"
    /\ PreHeader \cap Range(data) # {}
    /\ sheet.specialRows # <<>>

(***************************************************************************)
(* The categories in their order of precedence                             *)
(***************************************************************************)
Precedence ==
    <<"Medic", "Assistant", "DistrictChief", "TravelerAM", "TravelerPM", "Other">>

Matches(category, group) ==
    CASE category = "Medic"         -> Contains(group, sMedic) /\ ~Contains(group, s73)
      [] category = "Assistant"     -> Contains(group, sOnDuty)
      [] category = "DistrictChief" -> Contains(group, sDistrict) /\ ~Contains(group, sEMS)
      [] category = "TravelerAM"    -> Contains(group, sTravelersAM)
      [] category = "TravelerPM"    -> Contains(group, sTravelersPM)
      [] OTHER                      -> TRUE

FirstMatch(group) ==
    Precedence[Min({ k \in 1..Len(Precedence) : Matches(Precedence[k], group) })]

GroupsOfData == { roster[r].Group : r \in { q \in Range(data) : "Group" \in DOMAIN roster[q] } }

\* C6: every distinct group name is handled by exactly one branch, the first
\* in the order Medic, Assistant, DistrictChief, TravelerAM, TravelerPM, Other
\* whose pattern it matches.
C6_Categorization ==
    /\ \A k \in 1..Len(handled) : handled[k][2] = FirstMatch(handled[k][1])
    /\ \A k, l \in 1..Len(handled) : handled[k][1] = handled[l][1] => k = l
    /\ pc = "written" => { handled[k][1] : k \in 1..Len(handled) } = GroupsOfData

\* "EMS District HQ" fell to Other next to a name matching two patterns
C6_Witness ==
    /\ pc = "written"
    /\ <<gEMSDistrictHQ, "Other">> \in Range(handled)
    /\ \E k \in 1..Len(handled) :
          /\ Matches("Assistant", handled[k][1])
          /\ handled[k][2] = "Medic"

\* the records of a group on one shift, in record order
ShiftSubset(group, shift) ==
    Keep(data, { r \in Range(data) :
                    /\ Get(roster[r], "Group") = group
                    /\ Get(roster[r], "Shift") = shift })

\* [shift, group, name1, name2, name3] of the first three records, or all empty
SubRow(group, shift) ==
    LET es == ShiftSubset(group, shift)
    IN  IF Len(es) = 0 THEN <<sEmpty, sEmpty, sEmpty, sEmpty, sEmpty>>
        ELSE <<shift, group>>
             \o [k \in 1..3 |-> IF k <= Len(es) THEN roster[es[k]].Name ELSE sEmpty]

CombinedRow(group) == SubRow(group, sAM) \o SubRow(group, sPM)

MedicGroups == { g \in GroupsOfData : Matches("Medic", g) }

\* C7: each medic group yields the AM and PM sub-rows of the first three
\* records of its shift subsets, and its 10-column row is emitted unless empty.
C7_MedicRows ==
    pc = "written" =>
        /\ \A g \in MedicGroups :
              ~AllEmpty(CombinedRow(g)) => CombinedRow(g) \in Range(sheet.medicRows)
        /\ Len(sheet.medicRows)
              = Cardinality({ g \in MedicGroups : ~AllEmpty(CombinedRow(g)) })

SingleSlotGroups ==
    { g \in GroupsOfData : FirstMatch(g) \in {"Assistant", "DistrictChief"} }

\* C8: several records on one shift side of an assistant or chief group do not
\* make row building raise; the side is built from the first of them.
C8_MultipleMatchNotFatal ==
    /\ ~(pc = "failed" /\ err = "UnboundLocalError")
    /\ pc = "written" =>
          \A g \in SingleSlotGroups : \A shift \in {sAM, sPM} :
              Len(ShiftSubset(g, shift)) > 1 =>
                  \E row \in {sheet.asstRow} \cup Range(sheet.distRows) :
                      roster[ShiftSubset(g, shift)[1]].Name \in Range(row)

\* C9: an on-duty record of a group that starts at neither 06:00 nor 18:00 has
\* shift Special and a row in the Other/Special collection, whatever the group.
C9_SpecialRoutedToOther ==
    pc = "written" =>
        \A r \in { q \in Range(data) : "Group" \in DOMAIN roster[q] } :
            Get(roster[r], "From") \notin {t0600, t1800} =>
                /\ roster[r].Shift = sSpecial
                /\ \E k \in 1..Len(sheet.specialRows) :
                      sheet.specialRows[k][4] = roster[r].Name

\* header "District 3 / Station 12", then one on-duty record starting at 18:00
\* that has a through time
Station12Scenario ==
    /\ Len(file) = 2
    /\ file[1] = H(gDistrict3Station12)
    /\ 2 \in WellFormed
    /\ OnDutyPerson(file[2].Name) /\ AllowedCode(file[2].Code)
    /\ Get(file[2], "From") = t1800
    /\ "Through" \in DOMAIN file[2]

\* C10 as stated: the truncated group "Station 12" is a district-chief group
\* and yields one chief row with an empty AM side and the PM side of the record.
C10_Station12IsChief ==
    (pc = "written" /\ Station12Scenario) =>
        /\ roster[2].Group = gStation12
        /\ handled = << <<gStation12, "DistrictChief">> >>
        /\ sheet.distRows =
              << <<sEmpty, sEmpty, sEmpty, sPM, gStation12, file[2].Name>> >>

\* C10 amended: the truncated group "Station 12" does not contain "District",
\* is handled by the Other branch, yields no chief row and yields the one
\* Other/Special row ["", "18:00-<through>", "Station 12", <name>].
C10_Station12IsOther ==
    Station12Scenario =>
        /\ pc # "failed"
        /\ pc = "written" =>
              /\ roster[2].Group = gStation12
              /\ handled = << <<gStation12, "Other">> >>
              /\ sheet.distRows = <<>>
              /\ sheet.specialRows =
                    << <<sEmpty, t1800 \o sDash \o file[2].Through,
                         gStation12, file[2].Name>> >>

\* the scenario ran to the end
C10_Witness == pc = "written" /\ Station12Scenario

\* C11: the Other/Special rows handed to the report ascend by their name cell.
C11_OtherSortedByName ==
    pc = "written" =>
        \A k, l \in 1..Len(sheet.specialRows) :
            k < l => StrLeq(sheet.specialRows[k][4], sheet.specialRows[l][4])

NoOnDutyGroup == \A g \in GroupsOfData : ~Contains(g, sOnDuty)

\* C12 as stated: without an "On-Duty" group the assistant row is the
\* six-cell placeholder ["AM","ASST","","PM","ASST",""].
C12_SixCellPlaceholder ==
    (pc = "written" /\ NoOnDutyGroup) =>
        sheet.asstRow = <<sAM, sASST, sEmpty, sPM, sASST, sEmpty>>

\* C12 amended: without an "On-Duty" group the one assistant row of the
\* report is the eight-cell placeholder ["AM","ASST","","","","PM","ASST",""].
C12_EightCellPlaceholder ==
    (pc = "written" /\ NoOnDutyGroup) =>
        sheet.asstRow = <<sAM, sASST, sEmpty, sEmpty, sEmpty, sPM, sASST, sEmpty>>

\* a report with rows of other groups and no "On-Duty" group
C12_Witness ==
    /\ pc = "written"
    /\ NoOnDutyGroup
    /\ GroupsOfData # {}
    /\ sheet.medicRows # <<>>

\* the groups whose entries a record is selected into
SelectedInto(r) ==
    { g \in GroupsOfData : r \in Range(Entries(roster, data, g)) }

\* C17: a record that carries a group is selected into the entries of exactly
\* one group of the loop, the one equal to its own truncated Group.
C17_ConsumedOnce ==
    pc = "written" =>
        \A r \in { q \in Range(data) : "Group" \in DOMAIN roster[q] } :
            SelectedInto(r) = {roster[r].Group}

\* AM for a start at 06:00, PM for a start at 18:00, Special otherwise
ExpectedShift(entry) ==
    IF "From" \in DOMAIN entry /\ entry.From = t0600 THEN sAM
    ELSE IF "From" \in DOMAIN entry /\ entry.From = t1800 THEN sPM
    ELSE sSpecial

\* C14: assign_shift keeps the list as it is and, on each of its records, sets
\* Shift from From alone and changes nothing else.
C14_AssignShift ==
    [][ pc = "filtered" =>
          /\ data' = data
          /\ \A i \in 1..Len(roster) :
                roster'[i] = IF i \in Range(data)
                             THEN SetKey(roster[i], "Shift", ExpectedShift(roster[i]))
                             ELSE roster[i] ]_vars

\* two records starting at 06:00 with different ends are both AM, and a
\* record without a start is Special
C14_Witness ==
    /\ pc = "shifted"
    /\ \E r, q \in Range(data) :
          /\ Get(roster[r], "From") = t0600 /\ Get(roster[q], "From") = t0600
          /\ roster[r].Through # roster[q].Through
          /\ roster[r].Shift = sAM /\ roster[q].Shift = sAM
    /\ \E r \in Range(data) :
          "From" \notin DOMAIN roster[r] /\ roster[r].Shift = sSpecial

RunEnded == pc \in {"written", "failed"}

\* C16: a second run, on a fresh copy of the input or on the dict objects the
\* first run modified in place, ends as the first run did, with the same rows.
C16_Idempotent ==
    RunEnded =>
        /\ RunPipeline(file).sheet = sheet
        /\ RunPipeline(file).err = err
        /\ RunPipeline(roster).sheet = sheet
        /\ RunPipeline(roster).err = err

\* the first run truncated a group in place and built a row from it
C16_Witness ==
    /\ pc = "written"
    /\ roster # file
    /\ \E r \in Range(data) : Get(roster[r], "Group") = gStation12
    /\ sheet.specialRows # <<>>

\* an empty-or-missing cell: null, not-a-number, or a str of nothing but spaces
EmptyCell(v) ==
    \/ v \in {NoneVal, NaNVal}
    \/ (IsStr(v) /\ \A i \in 1..Len(v) : v[i] = " ")

Surviving(row) == { k \in DOMAIN row : ~EmptyCell(row[k]) }

\* the row without its empty cells, under the semantic field names
Normalized(row) ==
    [nk \in { NewKey(k) : k \in Surviving(row) } |->
        row[CHOOSE k \in Surviving(row) : NewKey(k) = nk]]

IsRankLiterally(v) == v = sRank
IsRankStripped(v) == Strip(PyStr(v)) = sRank

KeptLiterally(row) ==
    Surviving(row) # {} /\ \A k \in Surviving(row) : ~IsRankLiterally(row[k])
KeptStripped(row) ==
    Surviving(row) # {} /\ \A k \in Surviving(row) : ~IsRankStripped(row[k])

NormalizedRows(kept) == [i \in 1..Len(kept) |-> Normalized(kept[i])]

Loads == pc = "reading" /\ pc' = "loaded"

\* C15 as stated: load_roster_report returns, in input order, the normalized
\* rows that keep a non-empty value and have no surviving value equal to "Rank".
C15_RankLiterally ==
    [][ Loads =>
          file' = NormalizedRows(SelectSeq(inFileNames[idx].records, KeptLiterally)) ]_vars

\* C15 amended: load_roster_report returns, in input order, the normalized rows
\* that keep a non-empty value and have no surviving value whose text, with the
\* surrounding whitespace stripped, is "Rank"; a row with one surviving field
\* is among them.
C15_RankStripped ==
    [][ Loads =>
          file' = NormalizedRows(SelectSeq(inFileNames[idx].records, KeptStripped)) ]_vars

\* a file with a legend row, a padded legend row, an empty row and a header was
\* loaded: only the header and a renamed record are left
C15_Witness ==
    /\ pc = "loaded"
    /\ \E a, b, c \in Range(inFileNames[idx].records) :
          /\ Surviving(a) = {}
          /\ \E k \in Surviving(b) : IsRankLiterally(b[k])
          /\ \E k \in Surviving(c) : IsRankStripped(c[k]) /\ ~IsRankLiterally(c[k])
    /\ Len(file) = 1
    /\ Cardinality(DOMAIN file[1]) = 1

\* the reports main() can leave for file f when f is the only file selected
ReportsAlone(f) ==
    LET d == get_report_dates(f)
    IN  IF d.err # "" THEN { Report(d.err, NoSheet, Unbound) }
        ELSE IF ~f.readable THEN { Report("ValueError", NoSheet, Unbound) }
        ELSE LET r == RunPipeline(load_roster_report(f.records))
             IN  IF r.err # "" THEN { Report(r.err, NoSheet, Unbound) }
                 ELSE { Report("", r.sheet, d.result),
                        Report("PermissionError", NoSheet, Unbound),
                        Report("FileNotFoundError", r.sheet, d.result) }

\* C13: after a failure in a file the loop goes on to the next file, at its end
\* every file has been handled, and what is reported for a file is what main()
\* reports for that file alone, whatever the files before it did.
C13_BatchIsolation ==
    /\ [](\A k \in 1..Len(reports) : reports[k] \in ReportsAlone(inFileNames[k]))
    /\ [](pc = "done" => Len(reports) = Len(inFileNames))
    /\ [][ pc = "failed" =>
             /\ idx' = idx + 1
             /\ pc' = IF idx < Len(inFileNames) THEN "next" ELSE "done" ]_vars

\* a file failed in row building after it changed its rows, and the next file
\* was written in full
C13_Witness ==
    /\ pc = "done"
    /\ Len(inFileNames) = 2
    /\ reports[1].err = "UnboundLocalError"
    /\ reports[2].err = ""
    /\ reports[2].sheet.specialRows # <<>>

====
